---- MODULE Spec2Model ----
(***************************************************************************)
(* State-machine model of the AI inference platform's request path:        *)
(* CacheService (app/services/cache.py), the slowapi limiter on            *)
(* POST /api/v1/infer (app/services/rate_limit.py, app/api/v1/routes.py),  *)
(* the placeholder ModelService (app/services/model.py), the metrics       *)
(* collector (app/observability/metrics.py) and the inference handler.     *)
(*                                                                         *)
(* Time is a discrete clock `now`, in seconds.                             *)
(***************************************************************************)
EXTENDS Integers, Sequences, FiniteSets, TLC

\* ------------------------------------------------------------------ bounds
\* Largest configured settings.rate_limit_per_minute explored.
MaxLimit == 2
\* Total number of POST /api/v1/infer requests the environment sends.
MaxRequests == 3
\* Requests sent where the JSON bodies or the process lifecycle vary.
MaxSent == 2
\* Calls of disconnect() the environment makes.
MaxDisconnects == 2
\* The clock advances TickSecs seconds at a time, up to MaxTime seconds.
TickSecs == 30
MaxTime == 60

\* ------------------------------------------------------- program constants
\* connect(): max_retries = 3
max_retries == 3
\* settings.redis_ttl: cache TTL in seconds
redis_ttl == 60
\* The limiter's window: "<n>/minute", in seconds
WindowLen == 60

\* Python's None for an optional value; a present value v is <<v>>.
None == <<>>
Some(v) == <<v>>

\* Client identities (remote addresses) and the limiter keys they map to.
Identities == {"10.0.0.1", "10.0.0.2"}

\* settings.model_version, settings.model_name, settings.model_max_tokens,
\* settings.model_temperature (temperatures are in tenths).
model_version == "1.0.0"
model_name == "default-model"
model_max_tokens == 1000
model_temperature == 7

\* InferenceRequest: the Field constraints and defaults (temperatures are in
\* tenths).
prompt_min_length == 1
max_tokens_ge == 1
max_tokens_le == 1000
temperature_ge == 0
temperature_le == 20
max_tokens_default == 100
temperature_default == 7

\* Request bodies giving all three fields, each within its range.
Prompts == {"Hi", "What is AI?"}
Bodies == [prompt : Prompts, max_tokens : {Some(50)}, temperature : {Some(7)}]

\* JSON bodies of POST /api/v1/infer: a function from the keys present to
\* their values (None is JSON null). Around one valid body, each field is
\* left out, null, on either side of each end of its range.
BaseBody == [prompt |-> "What is AI?", max_tokens |-> Some(50), temperature |-> Some(7)]
Payloads ==
    {BaseBody}
    \cup {[BaseBody EXCEPT !.prompt = s] : s \in {"", "a"}}
    \cup {[BaseBody EXCEPT !.max_tokens = x] :
             x \in {None, Some(0), Some(1), Some(1000), Some(1001)}}
    \cup {[BaseBody EXCEPT !.temperature = x] :
             x \in {None, Some(0 - 1), Some(0), Some(20), Some(21)}}
    \cup {[max_tokens |-> Some(50), temperature |-> Some(7)],
          [prompt |-> "What is AI?", temperature |-> Some(7)],
          [prompt |-> "What is AI?", max_tokens |-> Some(50)],
          [prompt |-> "a"]}

\* In-flight executions of the handler the event loop interleaves.
Slots == {1, 2}

VARIABLES
    \* CacheService
    connected,      \* self._connected
    redis_client,   \* self.redis_client: None or "client"
    connPc,         \* position of connect(): "start", "sleeping", "done"
    attempt,        \* loop variable of connect()
    \* history of connect()
    pings,          \* connection attempts made
    sleeps,         \* backoff sleeps taken
    pingOk,         \* some attempt's ping succeeded
    connRaised,     \* connect() raised to startup_event
    \* disconnect()
    discPc,         \* position of disconnect(): "idle" or "closing"
    disconnects,    \* calls of disconnect() that have returned
    discRaised,     \* a call of disconnect() raised to shutdown_event
    \* Redis backend: key -> None or [value, exp]
    store,
    \* history: key -> None or the request body its entry was written for
    writer,
    \* the settings object: its rate_limit_enabled and rate_limit_per_minute
    settings,
    \* slowapi limiter (in-memory fixed window): the two settings as they
    \* were read when the limiter and the route were constructed
    rate_limit_enabled,
    rate_limit_per_minute,
    storage,        \* limiter key -> hits counted in its window
    expirations,    \* limiter key -> time its window ends
    \* clock
    now,
    \* in-flight executions of POST /api/v1/infer: the handler's position
    \* and locals, its response, and the history of its cache calls (held:
    \* what the backend held at its GET; getOutcome, setOutcome: how get and
    \* set ended; predicts: calls of model_service.predict)
    slot,
    \* MetricsCollector
    metrics,
    \* the last answer of GET /health: None or [status_code, content]
    health,
    \* history of admission decisions, per identity
    seen,           \* requests of the identity in its current window
    winStart,       \* time that window began
    lastOutcome,    \* "none", "admitted", "rejected"
    everRejected,   \* the identity has been rejected at some time
    admitted,       \* requests of the identity admitted in that window
    nreq            \* requests sent so far

vars == <<connected, redis_client, connPc, attempt, pings, sleeps, pingOk,
          connRaised, discPc, disconnects, discRaised, store, writer,
          settings, rate_limit_enabled, rate_limit_per_minute, storage, expirations,
          now, slot, metrics, health, seen, winStart, lastOutcome,
          everRejected, admitted, nreq>>

cacheVars == <<connected, redis_client, connPc, attempt, pings, sleeps,
               pingOk, connRaised>>
\* CacheService apart from _connected.
connectVars == <<redis_client, connPc, attempt, pings, sleeps, pingOk,
                 connRaised>>
limiterVars == <<storage, expirations, seen, winStart, lastOutcome,
                 everRejected, admitted>>
\* Settings read at import, the shutdown hook and the health probe.
configVars == <<settings, rate_limit_enabled, rate_limit_per_minute>>
shutdownVars == <<discPc, disconnects, discRaised>>

\* --------------------------------------------------------------- fingerprint
\* Faulty variant: a field that is None is keyed as the stub's configured
\* default for it.
generate_cache_key_DefaultsFilled(prompt, max_tokens, temperature) ==
    <<"inference:",
      "max_tokens", IF max_tokens = None THEN Some(model_max_tokens) ELSE max_tokens,
      "prompt", prompt,
      "temperature", IF temperature = None THEN Some(model_temperature) ELSE temperature>>

\* CacheService._generate_cache_key: json.dumps(sort_keys=True) of the three
\* fields, SHA-256 (taken as collision-free), prefixed "inference:".
generate_cache_key(prompt, max_tokens, temperature) ==
    <<"inference:", "max_tokens", max_tokens, "prompt", prompt,
      "temperature", temperature>>

KeyOf(b) == generate_cache_key(b.prompt, b.max_tokens, b.temperature)

\* ------------------------------------------------------- request validation
\* Faulty variant: the ends of a range are excluded.
InRange_Exclusive(x, lo, hi) == x = None \/ (x[1] > lo /\ x[1] < hi)

\* ge=lo, le=hi on an Optional field: None passes, a number must lie within.
InRange(x, lo, hi) == x = None \/ (x[1] >= lo /\ x[1] <= hi)

\* The value of a field of the JSON body p once its default is applied.
FieldOr(p, name, default) == IF name \in DOMAIN p THEN p[name] ELSE default

\* InferenceRequest built from the JSON body p. ok: whether p validates
\* (otherwise FastAPI answers 422); body: the instance the handler receives.
InferenceRequest(p) ==
    LET prompt == IF "prompt" \in DOMAIN p THEN p.prompt ELSE ""
        max_tokens == FieldOr(p, "max_tokens", Some(max_tokens_default))
        temperature == FieldOr(p, "temperature", Some(temperature_default))
    IN  [ok |-> /\ "prompt" \in DOMAIN p
                /\ Len(prompt) >= prompt_min_length
                /\ InRange(max_tokens, max_tokens_ge, max_tokens_le)
                /\ InRange(temperature, temperature_ge, temperature_le),
         body |-> [prompt |-> prompt, max_tokens |-> max_tokens,
                   temperature |-> temperature]]

\* The keys the service can address.
CacheKeys ==
    {KeyOf(InferenceRequest(p).body) : p \in {q \in Bodies \cup Payloads : InferenceRequest(q).ok}}

\* --------------------------------------------------------------- model stub
Min(a, b) == IF a <= b THEN a ELSE b

\* "x or default": Python falls back on None and on 0.
OrDefault(x, d) == IF x = None \/ x = Some(0) THEN d ELSE x[1]

\* Faulty variant: the generated tokens are not capped by max_tokens.
predict_Uncapped(prompt, max_tokens, temperature) ==
    LET temp == OrDefault(temperature, model_temperature)
        estimated_tokens == Len(prompt) \div 4
        tokens_used == estimated_tokens + (estimated_tokens + 10)
    IN  [output |-> <<"Model response to: ", prompt, Len(prompt), tokens_used, temp>>,
         tokens_used |-> tokens_used,
         model_version |-> model_version,
         model_name |-> model_name]

\* Faulty variant: the output carries the number of inferences served so far.
predict_Stateful(prompt, max_tokens, temperature) ==
    LET mt == OrDefault(max_tokens, model_max_tokens)
        temp == OrDefault(temperature, model_temperature)
        estimated_tokens == Len(prompt) \div 4
        generated_tokens == Min(mt, estimated_tokens + 10)
        tokens_used == estimated_tokens + generated_tokens
    IN  [output |-> <<"Model response to: ", prompt, Len(prompt), tokens_used, temp,
                      metrics.inference_requests>>,
         tokens_used |-> tokens_used,
         model_version |-> model_version,
         model_name |-> model_name]

\* ModelService.predict: a function of its arguments and the configuration.
predict(prompt, max_tokens, temperature) ==
    LET mt == OrDefault(max_tokens, model_max_tokens)
        temp == OrDefault(temperature, model_temperature)
        estimated_tokens == Len(prompt) \div 4
        generated_tokens == Min(mt, estimated_tokens + 10)
        tokens_used == estimated_tokens + generated_tokens
    IN  [output |-> <<"Model response to: ", prompt, Len(prompt), tokens_used, temp>>,
         tokens_used |-> tokens_used,
         model_version |-> model_version,
         model_name |-> model_name]

\* InferenceResponse built from a result or a cached entry.
InferenceResponse(d) ==
    [output |-> d.output, tokens_used |-> d.tokens_used,
     model_version |-> d.model_version]

\* ------------------------------------------------------------------ connect
\* Faulty variant: a later call retries the connection of a disabled store.
ConnectPending_Retry == connPc = "start" \/ (connPc = "done" /\ ~connected)

\* The loop of connect() is entered while attempts remain.
ConnectPending == connPc = "start"

\* Faulty variant: the backoff sleep is taken after the last failed attempt too.
AttemptResult_SleepAlways(ok, att, conn) ==
    IF ok THEN [pc |-> "done", connected |-> TRUE, sleep |-> FALSE, raised |-> FALSE]
    ELSE IF att < max_retries - 1
         THEN [pc |-> "sleeping", connected |-> conn, sleep |-> TRUE, raised |-> FALSE]
         ELSE [pc |-> "done", connected |-> FALSE, sleep |-> TRUE, raised |-> FALSE]

\* Faulty variant: a successful ping returns without setting _connected.
AttemptResult_NoFlag(ok, att, conn) ==
    IF ok THEN [pc |-> "done", connected |-> conn, sleep |-> FALSE, raised |-> FALSE]
    ELSE IF att < max_retries - 1
         THEN [pc |-> "sleeping", connected |-> conn, sleep |-> TRUE, raised |-> FALSE]
         ELSE [pc |-> "done", connected |-> FALSE, sleep |-> FALSE, raised |-> FALSE]

\* What one attempt leaves behind: `ok` is whether from_url and ping both
\* returned. Gives the next position, _connected, whether it sleeps and
\* whether the exception leaves connect().
AttemptResult(ok, att, conn) ==
    IF ok THEN [pc |-> "done", connected |-> TRUE, sleep |-> FALSE, raised |-> FALSE]
    ELSE IF att < max_retries - 1
         THEN [pc |-> "sleeping", connected |-> conn, sleep |-> TRUE, raised |-> FALSE]
         ELSE [pc |-> "done", connected |-> FALSE, sleep |-> FALSE, raised |-> FALSE]

\* One iteration of the retry loop up to its await of sleep or its return.
\* outcome: "ok", "from_url_raises" or "ping_raises".
ConnectAttempt(outcome) ==
    /\ ConnectPending
    /\ LET res == AttemptResult(outcome = "ok", attempt, connected)
       IN  /\ connPc' = res.pc
           /\ connected' = res.connected
           /\ sleeps' = IF res.sleep THEN sleeps + 1 ELSE sleeps
           /\ connRaised' = (connRaised \/ res.raised)
    /\ redis_client' = IF outcome = "from_url_raises" THEN redis_client ELSE "client"
    /\ pings' = pings + 1
    /\ pingOk' = (pingOk \/ outcome = "ok")
    /\ UNCHANGED <<attempt, store, writer, configVars, shutdownVars, health,
                   storage, expirations, now, slot, metrics, seen, winStart,
                   lastOutcome, everRejected, admitted, nreq>>

\* asyncio.sleep(retry_delay) returns; the loop goes to its next iteration.
ConnectSleepDone ==
    /\ connPc = "sleeping"
    /\ connPc' = "start"
    /\ attempt' = attempt + 1
    /\ UNCHANGED <<connected, redis_client, pings, sleeps, pingOk, connRaised,
                   store, writer, configVars, shutdownVars, health, storage,
                   expirations, now, slot, metrics, seen, winStart,
                   lastOutcome, everRejected, admitted, nreq>>

\* ------------------------------------------------------------ cache store
\* json.dumps / json.loads of a result dictionary.
json_dumps(d) == <<"json", d>>
json_loads(s) == s[2]

\* Faulty variant: set stores only the three fields of a response.
cache_value_Entry(result) == json_dumps(InferenceResponse(result))

\* set: cache_value = json.dumps(result), the dictionary it was handed.
cache_value(result) == json_dumps(result)

\* Faulty variant: get and set go to the backend whenever a client object
\* exists, whether or not its ping ever succeeded.
PassesGuard_ClientSet(conn, client) == client # "None"

\* The guard of get and of set ("if not self._connected: return"): the
\* backend call is awaited only when _connected is set.
PassesGuard(conn, client) == conn

\* Faulty variant: a backend error at call time disables the store.
AfterBackendError_Disable(conn) == FALSE

\* The except blocks of get and set log the error and return: _connected
\* (conn) stays as it is.
AfterBackendError(conn) == conn

\* Faulty variant: get without its _connected guard fails on the missing client.
CacheGet_NoGuard(conn, outcome, held) ==
    IF ~conn THEN [ret |-> None, raised |-> TRUE, how |-> "disabled"]
    ELSE IF outcome = "raises" THEN [ret |-> None, raised |-> FALSE, how |-> "error"]
    ELSE IF held # None THEN [ret |-> Some(json_loads(held[1])), raised |-> FALSE, how |-> "hit"]
    ELSE [ret |-> None, raised |-> FALSE, how |-> "miss"]

\* CacheService.get. conn: self._connected; outcome: what the backend GET does
\* ("ok" or "raises"); held: the value the backend holds under the key.
\* ret is what get returns, raised whether it raises to its caller.
CacheGet(conn, outcome, held) ==
    IF ~conn THEN [ret |-> None, raised |-> FALSE, how |-> "disabled"]
    ELSE IF outcome = "raises" THEN [ret |-> None, raised |-> FALSE, how |-> "error"]
    ELSE IF held # None THEN [ret |-> Some(json_loads(held[1])), raised |-> FALSE, how |-> "hit"]
    ELSE [ret |-> None, raised |-> FALSE, how |-> "miss"]

\* Faulty variant: set lets the backend's error through.
CacheSet_Propagates(conn, outcome) ==
    IF ~conn THEN [write |-> FALSE, raised |-> FALSE, how |-> "disabled"]
    ELSE IF outcome = "raises" THEN [write |-> FALSE, raised |-> TRUE, how |-> "error"]
    ELSE [write |-> TRUE, raised |-> FALSE, how |-> "ok"]

\* CacheService.set. write: whether SETEX stored the value.
CacheSet(conn, outcome) ==
    IF ~conn THEN [write |-> FALSE, raised |-> FALSE, how |-> "disabled"]
    ELSE IF outcome = "raises" THEN [write |-> FALSE, raised |-> FALSE, how |-> "error"]
    ELSE [write |-> TRUE, raised |-> FALSE, how |-> "ok"]

\* The value the backend holds under key k (None once its TTL has elapsed).
Held(k) == IF store[k] = None THEN None ELSE Some(store[k][1].value)

\* Values another client of the same Redis database may have put under an
\* inference key: JSON objects lacking a field the handler reads.
ForeignValues ==
    [no_tokens_used |-> json_dumps([output |-> "other", model_version |-> "0.9"]),
     no_output |-> json_dumps([tokens_used |-> 1, model_version |-> "0.9"])]

\* What the backend answers to GET key: its own entry, or a foreign value.
GetReply(outcome, k) ==
    IF outcome \in DOMAIN ForeignValues THEN Some(ForeignValues[outcome]) ELSE Held(k)

\* Faulty variant: SET without expiry; the entry outlives the TTL.
Setex_NoExpiry(st, k, ttl, value, t) ==
    [st EXCEPT ![k] = Some([value |-> value, exp |-> t + 100 * ttl])]

\* SETEX key ttl value
Setex(st, k, ttl, value, t) == [st EXCEPT ![k] = Some([value |-> value, exp |-> t + ttl])]

\* ------------------------------------------------------------ rate limiter
\* Faulty variant: every client is counted under one key.
key_func_Shared(id) == "10.0.0.1"

\* key_func = get_remote_address
key_func(id) == id

\* Faulty variant: the route's limit is read from the settings object at
\* each request.
route_limits_Live == {settings.rate_limit_per_minute}

\* Limiter(default_limits=[...] if settings.rate_limit_enabled else [])
default_limits == IF rate_limit_enabled THEN {rate_limit_per_minute} ELSE {}

\* @limiter.limit(f"{settings.rate_limit_per_minute}/minute") on inference
route_limits == {rate_limit_per_minute}

\* The limits checked for POST /api/v1/infer: the decorated limit, which
\* overrides the defaults; the defaults where no limit is decorated.
InferLimits == IF route_limits # {} THEN route_limits ELSE default_limits

\* MemoryStorage.get: a key whose expiry has passed is dropped.
Expired(exp, t) == exp <= t

\* Faulty variant: the limit is compared strictly.
WithinLimit_Strict(value, amount) == value < amount

\* FixedWindowRateLimiter.hit's comparison against the limit's amount.
WithinLimit(value, amount) == value <= amount

\* Faulty variant: every hit pushes the expiry back (elastic expiry).
NextExpiry_Elastic(count, exp, expiry, t) == t + expiry

\* The expiry a hit leaves on the key: set when the key is created.
NextExpiry(count, exp, expiry, t) == IF count = 1 THEN t + expiry ELSE exp

\* Faulty variant: the counter is read before and written after a
\* suspension, so a hit made while another request of the key is inside the
\* handler writes back the value that request already wrote.
Incr_LostUpdate(key, expiry, t) ==
    LET gone == Expired(expirations[key], t)
        c0 == IF gone THEN 0 ELSE storage[key]
        e0 == IF gone THEN 0 ELSE expirations[key]
        racing == \E q \in Slots : slot[q].id = key /\ slot[q].pc \in {"get", "predict", "set"}
        c1 == IF racing /\ c0 > 0 THEN c0 ELSE c0 + 1
    IN  [count |-> c1, exp |-> NextExpiry(c1, e0, expiry, t)]

\* MemoryStorage.incr on `key` at time t: the counter and expiry it leaves.
\* The read and the write are one synchronous call, with no suspension
\* between them.
Incr(key, expiry, t) ==
    LET gone == Expired(expirations[key], t)
        c0 == IF gone THEN 0 ELSE storage[key]
        e0 == IF gone THEN 0 ELSE expirations[key]
    IN  [count |-> c0 + 1, exp |-> NextExpiry(c0 + 1, e0, expiry, t)]

\* ------------------------------------------------------------------ metrics
record_request(m, status_code) ==
    IF status_code = 200
    THEN [m EXCEPT !.request_count_200 = @ + 1]
    ELSE [m EXCEPT !.request_count_500 = @ + 1]
record_cache_hit(m) == [m EXCEPT !.cache_hits = @ + 1]
record_cache_miss(m) == [m EXCEPT !.cache_misses = @ + 1]
record_inference(m) == [m EXCEPT !.inference_requests = @ + 1]
record_error(m, error_type) == [m EXCEPT !.inference_errors[error_type] = @ + 1]
increment_active_requests(m) == [m EXCEPT !.active_requests = @ + 1]
decrement_active_requests(m) == [m EXCEPT !.active_requests = @ - 1]

\* ------------------------------------------------------------------ handler
\* payload: the JSON body received; body: the validated InferenceRequest;
\* error: the type name of the exception that left the handler; obsRaised:
\* a metrics or tracing call raised while the request was handled.
IdleSlot ==
    [pc |-> "idle", id |-> "", payload |-> None, body |-> None,
     cached_result |-> None, result |-> None, status |-> 0, response |-> None,
     error |-> "", held |-> None, getOutcome |-> "none", setOutcome |-> "none",
     predicts |-> 0, obsRaised |-> FALSE]

\* Type names of the exceptions the handler's except block can see.
ErrorTypes == {"KeyError", "AttributeError", "ConnectionError", "TypeError"}

ZeroMetrics ==
    [request_count_200 |-> 0, request_count_500 |-> 0, cache_hits |-> 0,
     cache_misses |-> 0, inference_requests |-> 0,
     inference_errors |-> [e \in ErrorTypes |-> 0],
     active_requests |-> 0]

\* The process after import, with settings.rate_limit_enabled = enabled.
Boot(enabled) ==
    /\ connected = FALSE
    /\ redis_client = "None"
    /\ connPc = "start"
    /\ attempt = 0
    /\ pings = 0
    /\ sleeps = 0
    /\ pingOk = FALSE
    /\ connRaised = FALSE
    /\ discPc = "idle"
    /\ disconnects = 0
    /\ discRaised = FALSE
    /\ health = None
    /\ store = [k \in CacheKeys |-> None]
    /\ writer = [k \in CacheKeys |-> None]
    /\ rate_limit_enabled = enabled
    /\ rate_limit_per_minute \in 1..MaxLimit
    /\ settings = [rate_limit_enabled |-> enabled,
                   rate_limit_per_minute |-> rate_limit_per_minute]
    /\ storage = [k \in Identities |-> 0]
    /\ expirations = [k \in Identities |-> 0]
    /\ now = 0
    /\ slot = [r \in Slots |-> IdleSlot]
    /\ metrics = ZeroMetrics
    /\ seen = [a \in Identities |-> 0]
    /\ winStart = [a \in Identities |-> 0]
    /\ lastOutcome = [a \in Identities |-> "none"]
    /\ everRejected = [a \in Identities |-> FALSE]
    /\ admitted = [a \in Identities |-> 0]
    /\ nreq = 0

\* settings.rate_limit_enabled defaults to True.
Init == Boot(TRUE)

\* The handler's return on the miss path: record_request(200),
\* record_inference, decrement_active_requests, InferenceResponse.
Return200(s, m, d) ==
    [slot |-> [s EXCEPT !.pc = "done", !.status = 200,
                        !.response = Some(InferenceResponse(d))],
     metrics |-> decrement_active_requests(record_inference(record_request(m, 200)))]

\* Faulty variant: the except block answers with the stub's result.
Raise500_Swallow(s, m, error_type) ==
    [slot |-> [s EXCEPT !.pc = "done", !.status = 200],
     metrics |-> decrement_active_requests(m)]

\* The handler's except block for an exception of type error_type:
\* record_error, record_request(500), decrement_active_requests, raise.
Raise500(s, m, error_type) ==
    [slot |-> [s EXCEPT !.pc = "done", !.status = 500, !.error = error_type],
     metrics |-> decrement_active_requests(
                     record_request(record_error(m, error_type), 500))]

\* Faulty variant: a response served from the cache reports no tokens used.
HitPath_NoTokens(s, m, d) ==
    LET m1 == record_request(record_cache_hit(m), 200)
        m2 == decrement_active_requests(record_inference(m1))
    IN  IF "tokens_used" \notin DOMAIN d THEN Raise500(s, m1, "KeyError")
        ELSE IF {"output", "model_version"} \subseteq DOMAIN d
        THEN [slot |-> [s EXCEPT !.pc = "done", !.status = 200,
                                 !.response = Some([InferenceResponse(d) EXCEPT !.tokens_used = 0])],
              metrics |-> m2]
        ELSE Raise500(s, m2, "KeyError")

\* The hit path on the cached dictionary d: record_cache_hit,
\* record_request(200), then d["tokens_used"] for record_inference,
\* decrement_active_requests, then d["output"] and d["model_version"] for
\* the response. A missing key raises KeyError into the except block.
HitPath(s, m, d) ==
    LET m1 == record_request(record_cache_hit(m), 200)
        m2 == decrement_active_requests(record_inference(m1))
    IN  IF "tokens_used" \notin DOMAIN d THEN Raise500(s, m1, "KeyError")
        ELSE IF {"output", "model_version"} \subseteq DOMAIN d
        THEN [slot |-> [s EXCEPT !.pc = "done", !.status = 200,
                                 !.response = Some(InferenceResponse(d))],
              metrics |-> m2]
        ELSE Raise500(s, m2, "KeyError")

\* Faulty variant: the cached entry is ignored and the miss path runs.
AfterGet_AlwaysMiss(s, m, g) ==
    LET s1 == [s EXCEPT !.cached_result = g.ret, !.getOutcome = g.how]
    IN  IF g.raised THEN Raise500(s1, m, "AttributeError")
        ELSE [slot |-> [s1 EXCEPT !.pc = "predict"], metrics |-> record_cache_miss(m)]

\* After cache_service.get returned g: the hit path returns, the miss path
\* records the miss and awaits model_service.predict.
AfterGet(s, m, g) ==
    LET s1 == [s EXCEPT !.cached_result = g.ret, !.getOutcome = g.how]
    IN  IF g.raised THEN Raise500(s1, m, "AttributeError")
        ELSE IF g.ret # None THEN HitPath(s1, m, g.ret[1])
        ELSE [slot |-> [s1 EXCEPT !.pc = "predict"], metrics |-> record_cache_miss(m)]

\* After cache_service.set returned c.
AfterSet(s, m, c) ==
    LET s1 == [s EXCEPT !.setOutcome = c.how]
    IN  IF c.raised THEN Raise500(s1, m, "ConnectionError")
        ELSE Return200(s1, m, s1.result[1])

\* Faulty variant: a request whose entry is in the cache is exempt from the
\* limit.
exempt_when_Cached(b) == b # None /\ store[KeyOf(b[1])] # None

\* limiter.limit is given no exempt_when: no request (body b, None when it
\* did not validate) is exempt from the route's limit.
exempt_when(b) == FALSE

\* Faulty variant: the handler body is entered before the limiter's check.
LimitBeforeBody_After == FALSE

\* The limiter's check runs before the handler body (limiter.limit wraps it).
LimitBeforeBody == TRUE

\* Faulty variant: the limiter counts the request before its body is validated.
BodyValidatedFirst_Middleware == FALSE

\* router.post resolves the body parameter (and answers 422) before it calls
\* the function limiter.limit wraps; no limiter middleware is installed.
BodyValidatedFirst == TRUE

\* Faulty variant: the body is checked inside the handler, after the active
\* request gauge was raised.
Reject422_InHandler(s, m) ==
    [slot |-> [s EXCEPT !.pc = "done", !.status = 422],
     metrics |-> increment_active_requests(m)]

\* The 422 FastAPI answers for a body that does not validate: the handler
\* is not called.
Reject422(s, m) ==
    [slot |-> [s EXCEPT !.pc = "done", !.status = 422], metrics |-> m]

\* POST /api/v1/infer from identity id with JSON body p, in slot r (the first
\* free one): validation of the body, the limiter's check, then the handler
\* up to its first suspension (the backend GET when connected,
\* model_service.predict otherwise).
InferenceStart(r, id, p) ==
    /\ connPc = "done"
    /\ slot[r].pc = "idle"
    /\ \A q \in Slots : q < r => slot[q].pc # "idle"
    /\ nreq < MaxRequests
    /\ LET v == InferenceRequest(p)
           counted == /\ (v.ok \/ ~BodyValidatedFirst)
                      /\ InferLimits # {}
                      /\ ~exempt_when(IF v.ok THEN Some(v.body) ELSE None)
           key == key_func(id)
           h == Incr(key, WindowLen, now)
           ok == ~counted \/ \A amount \in InferLimits : WithinLimit(h.count, amount)
           fresh == seen[id] = 0 \/ now >= winStart[id] + WindowLen
           s0 == [IdleSlot EXCEPT !.id = id, !.payload = Some(p),
                                  !.body = IF v.ok THEN Some(v.body) ELSE None]
           m0 == increment_active_requests(metrics)
           g == CacheGet(connected, "ok", None)
           entered == IF PassesGuard(connected, redis_client)
                      THEN [slot |-> [s0 EXCEPT !.pc = "get"], metrics |-> m0]
                      ELSE AfterGet(s0, m0, g)
       IN  /\ IF counted
              THEN /\ storage' = [storage EXCEPT ![key] = h.count]
                   /\ expirations' = [expirations EXCEPT ![key] = h.exp]
                   /\ seen' = [seen EXCEPT ![id] = IF fresh THEN 1 ELSE @ + 1]
                   /\ winStart' = [winStart EXCEPT ![id] = IF fresh THEN now ELSE @]
                   /\ lastOutcome' = [lastOutcome EXCEPT ![id] = IF ok THEN "admitted" ELSE "rejected"]
                   /\ everRejected' = [everRejected EXCEPT ![id] = @ \/ ~ok]
                   /\ admitted' = [admitted EXCEPT ![id] =
                          (IF fresh THEN 0 ELSE @) + (IF ok THEN 1 ELSE 0)]
              ELSE UNCHANGED limiterVars
           /\ IF ~ok
              THEN /\ slot' = [slot EXCEPT ![r] =
                          [s0 EXCEPT !.pc = "done", !.status = 429]]
                   /\ metrics' = IF LimitBeforeBody THEN metrics ELSE m0
              ELSE IF ~v.ok
              THEN /\ slot' = [slot EXCEPT ![r] = Reject422(s0, metrics).slot]
                   /\ metrics' = Reject422(s0, metrics).metrics
              ELSE /\ slot' = [slot EXCEPT ![r] = entered.slot]
                   /\ metrics' = entered.metrics
    /\ nreq' = nreq + 1
    /\ UNCHANGED <<cacheVars, shutdownVars, health, store, writer, configVars, now>>

\* The backend GET completes (outcome "ok", "raises", or a foreign value
\* under the key) and get, which
\* passed its _connected guard before awaiting it, returns.
InferenceAfterGet(r, outcome) ==
    /\ slot[r].pc = "get"
    /\ LET held == GetReply(outcome, KeyOf(slot[r].body[1]))
           g == CacheGet(TRUE, outcome, held)
           n == AfterGet([slot[r] EXCEPT !.held = held], metrics, g)
       IN  /\ slot' = [slot EXCEPT ![r] = n.slot]
           /\ metrics' = n.metrics
    /\ connected' = IF outcome = "raises" THEN AfterBackendError(connected) ELSE connected
    /\ UNCHANGED <<connectVars, shutdownVars, health, store, writer, configVars,
                   limiterVars, now, nreq>>

\* model_service.predict returns; the handler calls cache_service.set and,
\* when set does no I/O, runs on to its return.
InferenceAfterPredict(r) ==
    /\ slot[r].pc = "predict"
    /\ LET b == slot[r].body[1]
           s1 == [slot[r] EXCEPT !.result = Some(predict(b.prompt, b.max_tokens, b.temperature)),
                                 !.predicts = @ + 1]
           n == IF PassesGuard(connected, redis_client)
                THEN [slot |-> [s1 EXCEPT !.pc = "set"], metrics |-> metrics]
                ELSE AfterSet(s1, metrics, CacheSet(connected, "ok"))
       IN  /\ slot' = [slot EXCEPT ![r] = n.slot]
           /\ metrics' = n.metrics
    /\ UNCHANGED <<cacheVars, shutdownVars, health, store, writer, configVars,
                   limiterVars, now, nreq>>

\* The backend SETEX completes (outcome "ok" or "raises") and set, which
\* passed its _connected guard before awaiting it, returns.
InferenceAfterSet(r, outcome) ==
    /\ slot[r].pc = "set"
    /\ LET c == CacheSet(TRUE, outcome)
           n == AfterSet(slot[r], metrics, c)
       IN  /\ slot' = [slot EXCEPT ![r] = n.slot]
           /\ metrics' = n.metrics
           /\ store' = IF c.write
                       THEN Setex(store, KeyOf(slot[r].body[1]), redis_ttl,
                                  cache_value(slot[r].result[1]), now)
                       ELSE store
           /\ writer' = IF c.write
                        THEN [writer EXCEPT ![KeyOf(slot[r].body[1])] = slot[r].body]
                        ELSE writer
    /\ connected' = IF outcome = "raises" THEN AfterBackendError(connected) ELSE connected
    /\ UNCHANGED <<connectVars, shutdownVars, health, configVars, limiterVars,
                   now, nreq>>

\* The backend SETEX completes and set returns; then, on the way to the
\* return, metrics.record_inference raises (record_request(200) has run).
\* The call stands inside the handler's try block with no handler of its
\* own, so the exception reaches the except block.
InferenceMetricsRaise(r, outcome) ==
    /\ slot[r].pc = "set"
    /\ LET c == CacheSet(TRUE, outcome)
           s1 == [slot[r] EXCEPT !.setOutcome = c.how, !.obsRaised = TRUE]
           n == Raise500(s1, record_request(metrics, 200), "TypeError")
       IN  /\ slot' = [slot EXCEPT ![r] = n.slot]
           /\ metrics' = n.metrics
           /\ store' = IF c.write
                       THEN Setex(store, KeyOf(slot[r].body[1]), redis_ttl,
                                  cache_value(slot[r].result[1]), now)
                       ELSE store
           /\ writer' = IF c.write
                        THEN [writer EXCEPT ![KeyOf(slot[r].body[1])] = slot[r].body]
                        ELSE writer
    /\ connected' = IF outcome = "raises" THEN AfterBackendError(connected) ELSE connected
    /\ UNCHANGED <<connectVars, shutdownVars, health, configVars, limiterVars,
                   now, nreq>>

\* The response (or the error) has been delivered to the client.
Release(r) ==
    /\ slot[r].pc = "done"
    /\ slot' = [slot EXCEPT ![r] = IdleSlot]
    /\ UNCHANGED <<cacheVars, shutdownVars, health, store, writer, configVars,
                   limiterVars, now, metrics, nreq>>

\* Time passes; the backend drops the entries whose TTL has elapsed.
Tick ==
    /\ connPc = "done"
    /\ now < MaxTime
    /\ now' = now + TickSecs
    /\ store' = [k \in CacheKeys |->
                    IF store[k] # None /\ store[k][1].exp <= now + TickSecs THEN None ELSE store[k]]
    /\ writer' = [k \in CacheKeys |-> IF store'[k] = None THEN None ELSE writer[k]]
    /\ UNCHANGED <<cacheVars, shutdownVars, health, configVars, limiterVars,
                   slot, metrics, nreq>>

\* ----------------------------------------------------------------- shutdown
\* Faulty variant: close() is called whether or not a client exists.
DisconnectResult_Unguarded(client) ==
    [closes |-> TRUE, raised |-> client = "None"]

\* disconnect(): close() is awaited only if self.redis_client is set.
DisconnectResult(client) ==
    [closes |-> client # "None", raised |-> FALSE]

\* Faulty variant: disconnect() closes the client and leaves _connected set.
AfterClose_StillConnected(conn) == conn

\* disconnect() after close() has returned: self._connected = False.
AfterClose(conn) == FALSE

\* disconnect() is called (shutdown_event) and runs up to its await of
\* close(), or returns at once when there is no client.
DisconnectStart ==
    /\ connPc = "done"
    /\ discPc = "idle"
    /\ disconnects < MaxDisconnects
    /\ LET d == DisconnectResult(redis_client)
       IN  /\ discPc' = IF d.closes /\ ~d.raised THEN "closing" ELSE "idle"
           /\ disconnects' = IF d.closes /\ ~d.raised THEN disconnects ELSE disconnects + 1
           /\ discRaised' = (discRaised \/ d.raised)
    /\ UNCHANGED <<cacheVars, health, store, writer, configVars, limiterVars, now, slot,
                   metrics, nreq>>

\* close() returns; disconnect() clears _connected and returns.
DisconnectDone ==
    /\ discPc = "closing"
    /\ discPc' = "idle"
    /\ connected' = AfterClose(connected)
    /\ disconnects' = disconnects + 1
    /\ UNCHANGED <<redis_client, connPc, attempt, pings, sleeps, pingOk,
                   connRaised, discRaised, health, store, writer, configVars,
                   limiterVars, now, slot, metrics, nreq>>

\* ----------------------------------------------------------------- settings
\* settings.rate_limit_per_minute = n; settings.rate_limit_enabled = e,
\* assigned while the service runs (as the rate-limit tests do).
SettingsAssign(n, e) ==
    /\ connPc = "done"
    /\ settings' = [rate_limit_enabled |-> e, rate_limit_per_minute |-> n]
    /\ settings' # settings
    /\ UNCHANGED <<cacheVars, shutdownVars, health, store, writer, rate_limit_enabled,
                   rate_limit_per_minute, limiterVars, now, slot, metrics, nreq>>

\* ------------------------------------------------------------------- health
\* Faulty variant: the probe reports the cache connection.
health_check_Readiness ==
    IF connected
    THEN [status_code |-> 200, content |-> [status |-> "healthy"]]
    ELSE [status_code |-> 503, content |-> [status |-> "unhealthy"]]

\* health_check: JSONResponse(content={"status": "healthy"})
health_check == [status_code |-> 200, content |-> [status |-> "healthy"]]

\* GET /health is answered. The route carries no limit and the limiter
\* has no middleware, so no counter is consulted. Kept with the answer:
\* whether the store was connected and whether some identity's last request
\* had been rejected when the probe was answered.
HealthCheck ==
    /\ connPc = "done"
    /\ health' = Some([response |-> health_check,
                       connected |-> connected,
                       limited |-> \E a \in Identities : lastOutcome[a] = "rejected"])
    /\ UNCHANGED <<cacheVars, shutdownVars, store, writer, configVars, limiterVars, now,
                   slot, metrics, nreq>>

\* ------------------------------------------------------------ specifications
\* The service with clients `ids` sending at most `sent` JSON bodies out of
\* `payloads`, a backend whose GET ends in one of `gets`, and the handler
\* slots `slots`.
ServeWith(ids, payloads, gets, slots, sent) ==
    \/ \E outcome \in {"ok", "from_url_raises", "ping_raises"} : ConnectAttempt(outcome)
    \/ ConnectSleepDone
    \/ \E r \in slots, id \in ids, p \in payloads : nreq < sent /\ InferenceStart(r, id, p)
    \/ \E r \in slots, outcome \in gets : InferenceAfterGet(r, outcome)
    \/ \E r \in slots : InferenceAfterPredict(r)
    \/ \E r \in slots, outcome \in {"ok", "raises"} : InferenceAfterSet(r, outcome)
    \/ \E r \in slots : Release(r)
    \/ Tick

\* The service with clients `ids` sending bodies `bodies`.
Serve(ids, bodies) == ServeWith(ids, bodies, {"ok", "raises"}, Slots, MaxRequests)

\* One client sending every body: the cache and the handler.
Next == Serve({"10.0.0.1"}, Bodies)
Spec == Init /\ [][Next]_vars

\* Every client sending one body: the limiter.
NextClients == Serve(Identities, {[prompt |-> "Hi", max_tokens |-> Some(50), temperature |-> Some(7)]})
SpecClients == Init /\ [][NextClients]_vars

\* One client sending every JSON body, one request at a time: validation,
\* defaults and the stub's arithmetic.
NextIngress == ServeWith({"10.0.0.1"}, Payloads, {"ok", "raises"}, {1}, MaxSent)
SpecIngress == Init /\ [][NextIngress]_vars

\* One client sending one body to a backend that other clients write too.
NextFaults ==
    ServeWith({"10.0.0.1"}, {BaseBody}, {"ok", "raises"} \cup DOMAIN ForeignValues,
              Slots, MaxRequests)
SpecFaults == Init /\ [][NextFaults]_vars

\* The service started with settings.rate_limit_enabled = False.
NextUnlimited == Serve({"10.0.0.1"}, {BaseBody})
SpecUnlimited == Boot(FALSE) /\ [][NextUnlimited]_vars

\* The service with its shutdown hook and its health probe.
NextShutdown ==
    \/ ServeWith({"10.0.0.1"}, {BaseBody}, {"ok", "raises"}, {1}, MaxSent)
    \/ DisconnectStart
    \/ DisconnectDone
    \/ HealthCheck
SpecShutdown == Init /\ [][NextShutdown]_vars

\* The service while its settings object is assigned to.
NextReconfigure ==
    \/ ServeWith({"10.0.0.1"}, {BaseBody}, {"ok", "raises"}, {1}, MaxRequests)
    \/ \E n \in 1..MaxLimit, e \in BOOLEAN : SettingsAssign(n, e)
SpecReconfigure == Init /\ [][NextReconfigure]_vars

\* The service with a metrics backend whose calls can raise.
NextObservability ==
    \/ ServeWith({"10.0.0.1"}, {BaseBody}, {"ok", "raises"}, {1}, MaxRequests)
    \/ \E r \in {1}, outcome \in {"ok", "raises"} : InferenceMetricsRaise(r, outcome)
SpecObservability == Init /\ [][NextObservability]_vars

\* startup_event awaits connect(): the event loop completes each of its
\* awaits (the ping, the sleep), so its steps are taken when enabled.
ConnectStep ==
    \/ \E outcome \in {"ok", "from_url_raises", "ping_raises"} : ConnectAttempt(outcome)
    \/ ConnectSleepDone
FairSpec == Spec /\ WF_vars(ConnectStep)

\* ---------------------------------------------------------------- claims
\* The response the stub's result gives for the body of slot r.
StubResponse(r) ==
    LET b == slot[r].body[1]
    IN  Some(InferenceResponse(predict(b.prompt, b.max_tokens, b.temperature)))

Disabled == connPc = "done" /\ ~connected

\* What a finished cache lookup implies for the request that made it.
C1_Lookup ==
    \A r \in Slots :
        LET s == slot[r]
        IN  /\ s.getOutcome = "miss" => s.held = None /\ s.cached_result = None
            /\ s.getOutcome = "hit" =>
                   /\ s.held # None
                   /\ s.pc = "done" /\ s.status = 200
                   /\ s.response = Some(InferenceResponse(json_loads(s.held[1])))
                   /\ s.predicts = 0 /\ s.setOutcome = "none"
            /\ s.getOutcome = "miss" /\ s.setOutcome = "ok" =>
                   /\ s.pc = "done" /\ s.status = 200
                   /\ s.predicts = 1
                   /\ s.response = StubResponse(r)
\* What a successful set leaves in the backend.
C1_Write ==
    \A r \in Slots :
        slot[r].pc = "set" /\ slot'[r].setOutcome = "ok" =>
            store'[KeyOf(slot[r].body[1])] =
                Some([value |-> json_dumps(predict(slot[r].body[1].prompt,
                                                   slot[r].body[1].max_tokens,
                                                   slot[r].body[1].temperature)),
                      exp |-> now + 60])
\* C1: cache-aside. A GET that ends without a backend error is a hit exactly
\* when the backend holds a live entry for the request's key; a hit returns
\* 200 with the stored output, tokens_used and model_version and never calls
\* predict or set; a miss whose set succeeded called predict exactly once and
\* returned its result; and a successful set stores that result under the
\* request's key with the configured TTL.
C1_CacheAside == [](C1_Lookup) /\ [][C1_Write]_vars
\* A hit served at a later time than the write, within the TTL.
C1_Witness ==
    \E r \in Slots : slot[r].getOutcome = "hit" /\ slot[r].pc = "done" /\ now = TickSecs

\* C2: fail-open when disabled. While the store is disabled every get returns
\* None and every set returns without raising, and every request the limiter
\* admitted returns 200 with the stub's result.
C2_FailOpenDisabled ==
    Disabled =>
        \A r \in Slots :
            LET s == slot[r]
            IN  /\ s.getOutcome \in {"none", "disabled"}
                /\ s.setOutcome \in {"none", "disabled"}
                /\ s.cached_result = None
                /\ s.status \in {0, 200, 429}
                /\ s.pc = "done" /\ s.status # 429 =>
                       /\ s.status = 200
                       /\ s.getOutcome = "disabled" /\ s.setOutcome = "disabled"
                       /\ s.response = StubResponse(r)
\* A request served by a disabled store.
C2_Witness ==
    Disabled /\ \E r \in Slots : slot[r].pc = "done" /\ slot[r].status = 200

\* C3: fail-open on call-time errors. A backend GET that raises makes get
\* return None, a backend SETEX that raises is swallowed, and the request
\* returns 200 with the stub's result, never 500.
C3_FailOpenErrors ==
    \A r \in Slots :
        LET s == slot[r]
        IN  /\ s.getOutcome = "error" => s.cached_result = None /\ s.status \in {0, 200}
            /\ s.setOutcome = "error" => s.status = 200
            /\ s.pc = "done" /\ (s.getOutcome = "error" \/ s.setOutcome = "error") =>
                   /\ s.status = 200
                   /\ s.predicts = 1
                   /\ s.response = StubResponse(r)
\* A request whose GET and SETEX both raised.
C3_Witness ==
    \E r \in Slots :
        /\ slot[r].pc = "done" /\ slot[r].status = 200
        /\ slot[r].getOutcome = "error" /\ slot[r].setOutcome = "error"

\* Attempts and sleeps of connect() so far.
C4_Bounds ==
    /\ pings <= 3
    /\ sleeps <= 2
    /\ ~connRaised
    /\ connPc # "done" => sleeps = pings /\ pings < 3
    /\ connPc = "done" => pings >= 1 /\ sleeps = pings - 1
C5_State ==
    /\ pingOk => connPc = "done"
    /\ connPc = "done" => (connected <=> pingOk)
    /\ connPc = "done" /\ ~pingOk => pings = 3 /\ ~connected
    /\ connPc # "done" => ~connected
\* C5: when connect() has returned the store is connected exactly when one
\* of its attempts pinged successfully; a successful attempt is the last
\* one; and three failed attempts leave the store disabled.
C5_ConnectOutcome == [](C5_State) /\ [][pingOk => pings' = pings]_vars
\* Connected by the second attempt.
C5_Witness == connPc = "done" /\ connected /\ pings = 2

\* C6: disabled is terminal. Once connect() has given up, no step connects
\* the store or makes another connection attempt.
C6_DisabledTerminal ==
    [][Disabled => (connPc' = "done" /\ ~connected' /\ pings' = pings
                    /\ redis_client' = redis_client)]_vars
\* Requests have been served, with a get and a set each, by a disabled store.
C6_Witness ==
    Disabled /\ \E r \in Slots : slot[r].pc = "done" /\ slot[r].setOutcome = "disabled"

\* C7: with limit N, the k-th request of an identity within one window is
\* admitted when k <= N and rejected with 429 when k > N.
C7_RateLimitBound ==
    /\ \A a \in Identities :
        /\ lastOutcome[a] = "admitted" => seen[a] >= 1 /\ seen[a] <= rate_limit_per_minute
        /\ lastOutcome[a] = "rejected" => seen[a] > rate_limit_per_minute
    /\ \A r \in Slots :
        slot[r].status = 429 => slot[r].pc = "done" /\ everRejected[slot[r].id]
\* The third request of a window under a limit of 2.
C7_Witness ==
    \E a \in Identities :
        /\ rate_limit_per_minute = 2
        /\ lastOutcome[a] = "rejected" /\ seen[a] = 3

\* The limiter's live counter for identity a, and a's own requests in its
\* current window.
LiveCount(a) ==
    IF expirations[key_func(a)] <= now THEN 0 ELSE storage[key_func(a)]
OwnCount(a) ==
    IF seen[a] = 0 \/ now >= winStart[a] + WindowLen THEN 0 ELSE seen[a]
\* C8: the counter the limiter consults for an identity counts that
\* identity's own requests of its current window and nothing else, so
\* another identity's requests never get it rejected.
C8_IdentityIsolation ==
    \A a \in Identities :
        /\ LiveCount(a) = OwnCount(a)
        /\ everRejected[a] => seen[a] > 0
\* One identity has just been rejected while the other is still admitted.
C8_Witness ==
    \E a, b \in Identities :
        /\ lastOutcome[a] = "rejected" /\ lastOutcome[b] = "admitted"
        /\ LiveCount(a) > rate_limit_per_minute /\ LiveCount(b) >= 1

\* A step that decides a request of an identity last rejected.
C9_Step ==
    \A a \in Identities :
        (/\ lastOutcome[a] = "rejected"
         /\ <<seen[a], winStart[a]>> # <<seen'[a], winStart'[a]>>
         /\ now >= winStart[a] + 60)
        => lastOutcome'[a] = "admitted" /\ seen'[a] = 1
\* C9: window reset. A request of an identity whose last request was
\* rejected, made once the window has elapsed, is admitted.
C9_WindowReset == [][C9_Step]_vars
\* An identity admitted again after a rejection.
C9_Witness ==
    \E a \in Identities : everRejected[a] /\ lastOutcome[a] = "admitted"

\* The step that rejects, and the rejected request afterwards.
C10_Step ==
    \A r \in Slots :
        slot[r].pc = "idle" /\ slot'[r].status = 429 =>
            /\ metrics' = metrics
            /\ store' = store
            /\ slot'[r].pc = "done"
C10_Quiet ==
    \A r \in Slots :
        slot[r].status = 429 =>
            /\ slot[r].pc = "done"
            /\ slot[r].getOutcome = "none" /\ slot[r].setOutcome = "none"
            /\ slot[r].predicts = 0
            /\ slot[r].cached_result = None /\ slot[r].result = None
\* C10: a rejection has no handler side effects. The step that rejects a
\* request with 429 changes no metric and no cache entry, and the rejected
\* request made no cache get, no cache set and no call of the stub.
C10_RejectionNoEffects == [](C10_Quiet) /\ [][C10_Step]_vars
\* A rejection while another request is inside the handler.
C10_Witness ==
    \E r, q \in Slots :
        /\ slot[r].status = 429
        /\ slot[q].pc \in {"get", "predict", "set"}
        /\ metrics.active_requests = 1

\* C11: when rate limiting is disabled by configuration
\* (settings.rate_limit_enabled is False when the limiter is constructed) no
\* limit is applied: no POST /api/v1/infer is rejected with 429, and every
\* valid request that has been answered was answered 200.
C11_DisabledNeverRejects ==
    ~rate_limit_enabled =>
        \A r \in Slots :
            /\ slot[r].status # 429
            /\ slot[r].pc = "done" /\ slot[r].body # None => slot[r].status = 200

\* The step that answers a request 422 counts it under its identity's key.
C12_CountsStep ==
    \A r \in Slots :
        slot[r].pc = "idle" /\ slot'[r].status = 422 =>
            storage'[key_func(slot'[r].id)] = LiveCount(slot'[r].id) + 1
\* C12 as stated: the rate limit is checked before the body is validated,
\* so a request answered with 422 consumes one rate-limit slot of its
\* identity.
C12_AdmissionBeforeValidation == [][C12_CountsStep]_vars
\* The step that answers a request 422 leaves every limiter counter and
\* window as it was.
C12_FreeStep ==
    \A r \in Slots :
        slot[r].pc = "idle" /\ slot'[r].status = 422 =>
            /\ storage' = storage
            /\ expirations' = expirations
            /\ seen' = seen /\ lastOutcome' = lastOutcome
\* C12 (amended): validation is ordered before admission. The body is
\* validated before the rate limit is checked, so a malformed request that
\* is answered with 422 consumes no rate-limit slot of its identity.
C12_ValidationBeforeAdmission == [][C12_FreeStep]_vars
\* A 422 answered after one request of the identity was counted: two
\* requests sent, one counted.
C12_Witness ==
    \E r \in Slots :
        /\ slot[r].status = 422
        /\ nreq = 2
        /\ storage[key_func(slot[r].id)] = 1 /\ seen[slot[r].id] = 1

\* The JSON bodies the claim accepts: a prompt of length at least 1,
\* max_tokens (when given) in 1..1000, temperature (when given) in 0.0..2.0.
C13_Accepted(p) ==
    /\ "prompt" \in DOMAIN p /\ Len(p.prompt) >= 1
    /\ ("max_tokens" \in DOMAIN p /\ p.max_tokens # None) =>
           (p.max_tokens[1] >= 1 /\ p.max_tokens[1] <= 1000)
    /\ ("temperature" \in DOMAIN p /\ p.temperature # None) =>
           (p.temperature[1] >= 0 /\ p.temperature[1] <= 20)
\* C13: validation boundaries. A request is answered 422 exactly when its
\* prompt is missing or empty, its max_tokens is given outside 1..1000 or
\* its temperature is given outside 0.0..2.0; every other request reaches
\* the limiter and the handler with a validated body.
C13_ValidationBoundaries ==
    \A r \in Slots :
        slot[r].payload # None =>
            /\ slot[r].status = 422 <=> ~C13_Accepted(slot[r].payload[1])
            /\ slot[r].body # None <=> C13_Accepted(slot[r].payload[1])
            /\ slot[r].status = 422 => slot[r].pc = "done"
\* A request with max_tokens at its upper end, 1000, answered 200.
C13_Witness ==
    \E r \in Slots :
        /\ slot[r].payload = Some([BaseBody EXCEPT !.max_tokens = Some(1000)])
        /\ slot[r].status = 200

\* len(prompt)//4 + min(max_tokens, len(prompt)//4 + 10) for the validated
\* body b, with the stub's configured max_tokens where b gives none.
C14_Tokens(b) ==
    LET n == Len(b.prompt) \div 4
        cap == IF b.max_tokens = None THEN model_max_tokens ELSE b.max_tokens[1]
    IN  n + (IF cap <= n + 10 THEN cap ELSE n + 10)
\* C14: token arithmetic of the stub. Every call of predict on a validated
\* body returns (no request ends in 500), and a request answered 200
\* without a cache hit called predict once and carries tokens_used =
\* len(prompt)//4 + min(max_tokens, len(prompt)//4 + 10) and the configured
\* model version, in the stub's result and in the response.
C14_TokenArithmetic ==
    \A r \in Slots :
        LET t == slot[r]
        IN  /\ t.status # 500
            /\ t.result # None =>
                   /\ t.predicts = 1
                   /\ t.result[1].tokens_used = C14_Tokens(t.body[1])
                   /\ t.result[1].model_version = "1.0.0"
            /\ t.status = 200 /\ t.getOutcome # "hit" =>
                   /\ t.result # None
                   /\ t.response[1].tokens_used = C14_Tokens(t.body[1])
                   /\ t.response[1].model_version = "1.0.0"
\* max_tokens 1 caps the generated tokens: 11 // 4 + min(1, 12) = 3.
C14_Witness ==
    \E r \in Slots :
        /\ slot[r].payload = Some([BaseBody EXCEPT !.max_tokens = Some(1)])
        /\ slot[r].status = 200 /\ slot[r].getOutcome = "miss"
        /\ slot[r].response[1].tokens_used = 3

\* The hit path of request t raises: the cached dictionary lacks a key the
\* handler reads.
C16_Raises(t) ==
    /\ t.getOutcome = "hit"
    /\ ~({"output", "tokens_used", "model_version"} \subseteq DOMAIN json_loads(t.held[1]))
\* A request in which a step raised, and the error metrics against the
\* requests recorded with status 500.
C16_State ==
    /\ \A r \in Slots :
           LET t == slot[r]
           IN  /\ C16_Raises(t) => t.pc = "done" /\ t.status = 500
               /\ t.status = 500 =>
                      /\ t.pc = "done"
                      /\ t.error = "KeyError"
                      /\ t.response = None
                      /\ t.setOutcome = "none"
    /\ metrics.request_count_500 =
           metrics.inference_errors["KeyError"]
           + metrics.inference_errors["AttributeError"]
           + metrics.inference_errors["ConnectionError"]
\* The step in which a request ends in 500.
C16_Step ==
    \A r \in Slots :
        slot[r].status # 500 /\ slot'[r].status = 500 =>
            /\ metrics'.inference_errors =
                   [metrics.inference_errors EXCEPT ![slot'[r].error] = @ + 1]
            /\ metrics'.request_count_500 = metrics.request_count_500 + 1
            /\ store' = store
\* C16: unexpected-error path. When a step between the cache lookup and
\* the response raises an exception that is not a swallowed cache error,
\* the handler records one error metric under the exception's type name,
\* records the request with status 500, makes no cache set for the request
\* and re-raises: the request ends in 500 without a response.
C16_ErrorPath == [](C16_State) /\ [][C16_Step]_vars
\* A request ended in 500 by a KeyError, counted once.
C16_Witness ==
    \E r \in Slots :
        /\ slot[r].status = 500 /\ slot[r].error = "KeyError"
        /\ metrics.inference_errors["KeyError"] = 1
        /\ metrics.request_count_500 = 1

\* Every entry in the backend was written less than the TTL ago: its
\* expiry lies ahead, at most the TTL away.
C17_Live ==
    \A k \in CacheKeys :
        store[k] # None => now < store[k][1].exp /\ store[k][1].exp <= now + 60
\* Writes, hits and evictions.
C17_Step ==
    /\ \A k \in CacheKeys :
           /\ store'[k] # store[k] /\ store'[k] # None => store'[k][1].exp = now + 60
           /\ store[k] # None /\ store'[k] = None => store[k][1].exp <= now'
    /\ \A r \in Slots :
           slot[r].pc = "get" /\ slot'[r].getOutcome = "hit" =>
               /\ store' = store
               /\ store[KeyOf(slot[r].body[1])] # None
               /\ now < store[KeyOf(slot[r].body[1])][1].exp
C18_ConfiguredDefaults ==
    \A r \in Slots :
        slot[r].body # None =>
            /\ "max_tokens" \notin DOMAIN slot[r].payload[1] =>
                   slot[r].body[1].max_tokens = Some(model_max_tokens)
            /\ "temperature" \notin DOMAIN slot[r].payload[1] =>
                   slot[r].body[1].temperature = Some(model_temperature)

\* Once a call of disconnect() has returned the store is not connected,
\* and no call of disconnect() has raised.
C19_State ==
    /\ ~discRaised
    /\ disconnects >= 1 => ~connected
\* A later call of disconnect(), at its start and at its return.
C19_Step ==
    (disconnects >= 1 /\ <<discPc, disconnects>> # <<discPc', disconnects'>>) =>
        /\ connected' = connected
        /\ redis_client' = redis_client
        /\ ~discRaised'
\* C19: disconnect() is idempotent. After any number of calls, from a
\* connected or a disabled store, the store is not connected; a call after
\* the first changes neither _connected nor the client; and no call raises.
C19_DisconnectIdempotent == [](C19_State) /\ [][C19_Step]_vars
\* disconnect() has returned twice on a store that was connected.
C19_Witness ==
    disconnects = 2 /\ pingOk /\ ~connected /\ redis_client = "client"

\* C20: GET /health is answered 200 with exactly {"status": "healthy"},
\* whether the store is connected or disabled and whether or not an
\* identity is over its rate limit.
C20_HealthAlways ==
    health # None =>
        health[1].response = [status_code |-> 200, content |-> [status |-> "healthy"]]
\* The probe answered while the store was not connected and the client had
\* just been rejected with 429.
C20_Witness ==
    health # None /\ ~health[1].connected /\ health[1].limited

\* A step in which get or set goes to the backend, and a step in which
\* the handler calls get (on entry) or set (after predict) on a store that
\* is not connected.
C21_Step ==
    \A r \in Slots :
        /\ (slot[r].pc # "get" /\ slot'[r].pc = "get") => connected
        /\ (slot[r].pc # "set" /\ slot'[r].pc = "set") => connected
        /\ (~connected /\ slot[r].pc = "idle" /\ slot'[r].pc # "idle"
                /\ slot'[r].status \notin {422, 429}) =>
               /\ slot'[r].getOutcome = "disabled"
               /\ slot'[r].cached_result = None
               /\ slot'[r].pc = "predict"
               /\ store' = store
        /\ (~connected /\ slot[r].pc = "predict" /\ slot'[r].pc # "predict") =>
               /\ slot'[r].setOutcome = "disabled"
               /\ slot'[r].pc = "done"
               /\ store' = store
\* C21: only the connected store does I/O. A backend GET or SETEX is issued
\* only in a step taken while _connected is set; while it is not set (the
\* store disabled, or disconnected) get returns None and set returns within
\* the step that calls them, without a backend call and without a change
\* of the backend.
C21_OnlyConnectedIO == [][C21_Step]_vars
\* A request served after disconnect() closed a store that had connected:
\* its get and its set were both answered without the backend.
C21_Witness ==
    /\ pingOk /\ disconnects >= 1 /\ ~connected
    /\ \E r \in Slots :
           /\ slot[r].pc = "done" /\ slot[r].status = 200
           /\ slot[r].getOutcome = "disabled" /\ slot[r].setOutcome = "disabled"

\* Identity a has a request inside the handler.
C22_InFlight(a) ==
    \E q \in Slots : slot[q].id = a /\ slot[q].pc \in {"get", "predict", "set"}
\* A step in which the limiter decides a request of identity a while
\* another request of a is inside the handler: the live counter goes up by
\* exactly one, and the request is admitted exactly when the new count is
\* within the limit.
C22_Step ==
    \A r \in Slots :
        (/\ slot[r].pc = "idle" /\ slot'[r].pc # "idle"
         /\ slot'[r].status # 422
         /\ C22_InFlight(slot'[r].id)) =>
            /\ storage'[key_func(slot'[r].id)] = LiveCount(slot'[r].id) + 1
            /\ slot'[r].status = 429 <=>
                   LiveCount(slot'[r].id) + 1 > rate_limit_per_minute
\* C22: atomic rate-limit counting. Requests of one identity that arrive
\* while others of that identity are in flight each raise its counter by
\* one, none is lost; so under every interleaving at most N requests of
\* the identity are admitted within one window.
C22_AtomicCounting ==
    /\ [](\A a \in Identities : admitted[a] <= rate_limit_per_minute)
    /\ [][C22_Step]_vars
\* Under a limit of 2, the third request of the window is rejected while
\* an admitted one of the same identity is still inside the handler.
C22_Witness ==
    \E a \in Identities :
        /\ rate_limit_per_minute = 2 /\ admitted[a] = 2 /\ seen[a] = 3
        /\ C22_InFlight(a)
        /\ \E r \in Slots : slot[r].id = a /\ slot[r].status = 429

\* A step that assigns to the settings object, and a step in which the
\* limiter decides a request.
C23_Step ==
    /\ settings' # settings =>
           /\ rate_limit_per_minute' = rate_limit_per_minute
           /\ rate_limit_enabled' = rate_limit_enabled
           /\ InferLimits' = InferLimits
           /\ storage' = storage /\ expirations' = expirations
    /\ \A r \in Slots :
           (slot[r].pc = "idle" /\ slot'[r].pc # "idle" /\ slot'[r].status # 422) =>
               /\ InferLimits = {rate_limit_per_minute}
               /\ slot'[r].status = 429 <=>
                      LiveCount(slot'[r].id) + 1 > rate_limit_per_minute
C24_Untouched ==
    \A r \in Slots :
        slot[r].status = 422 =>
            /\ slot[r].pc = "done"
            /\ slot[r].body = None
            /\ slot[r].getOutcome = "none" /\ slot[r].setOutcome = "none"
            /\ slot[r].predicts = 0
            /\ slot[r].cached_result = None /\ slot[r].result = None
            /\ slot[r].response = None
C24_Step ==
    \A r \in Slots :
        slot[r].status # 422 /\ slot'[r].status = 422 =>
            /\ slot[r].pc = "idle"
            /\ metrics' = metrics
            /\ store' = store
\* C24: a validation failure is terminal. A request answered 422 made no
\* cache get, no call of the stub and no cache set, and the step that
\* answers it changes no metric (cache hits and misses, inferences, active
\* requests) and no cache entry.
C24_ValidationTerminal == [](C24_Untouched) /\ [][C24_Step]_vars
\* A 422 answered after a request that was served on a miss and cached.
C24_Witness ==
    \E r \in Slots :
        /\ slot[r].status = 422 /\ nreq = 2
        /\ metrics.cache_misses = 1 /\ metrics.inference_requests = 1
        /\ metrics.active_requests = 0
        /\ store[KeyOf(BaseBody)] # None

\* The canonical map behind key k: its entries, as name-value pairs.
C25_Entries(k) == {<<k[2], k[3]>>, <<k[4], k[5]>>, <<k[6], k[7]>>}
\* Every entry in the backend lies under the key of the body it was written
\* for, a key made of exactly the three fields with None kept as null; and
\* a request about to look up its key finds there no entry written for a
\* body that differs from its own in any field.
C25_Keyed ==
    /\ \A k \in CacheKeys :
           store[k] # None =>
               /\ writer[k] # None
               /\ k = KeyOf(writer[k][1])
               /\ Len(k) = 7 /\ k[1] = "inference:"
               /\ C25_Entries(k) = {<<"prompt", writer[k][1].prompt>>,
                                    <<"max_tokens", writer[k][1].max_tokens>>,
                                    <<"temperature", writer[k][1].temperature>>}
    /\ \A r \in Slots :
           slot[r].pc = "get" =>
               LET b == slot[r].body[1]
               IN  /\ store[KeyOf(b)] # None => writer[KeyOf(b)] = Some(b)
                   /\ \A k \in CacheKeys :
                          (store[k] # None /\ writer[k] # Some(b)) => k # KeyOf(b)
\* The step in which a request is served from the cache.
C25_HitStep ==
    \A r \in Slots :
        slot[r].pc = "get" /\ slot'[r].getOutcome = "hit" =>
            writer[KeyOf(slot[r].body[1])] = slot[r].body
C26_ObservabilityLocal ==
    \A r \in Slots :
        slot[r].obsRaised /\ slot[r].pc = "done" =>
            /\ slot[r].status = 200
            /\ slot[r].response = StubResponse(r)

\* Two requests with the same body that both saw a miss.
C27_BothMissed(r, q) ==
    /\ r # q
    /\ slot[r].body # None /\ slot[r].body = slot[q].body
    /\ slot[r].getOutcome = "miss" /\ slot[q].getOutcome = "miss"
\* C27: concurrent duplicate misses. Of two identical requests that both
\* saw a miss, each calls the stub and each makes its own write; both are
\* answered 200 with the same output, tokens_used and model_version; and
\* whichever write came last, the entry under their key is one whole
\* written value, equal to the result of both.
C27_DuplicateMisses ==
    \A r, q \in Slots :
        C27_BothMissed(r, q) =>
            LET k == KeyOf(slot[r].body[1])
            IN  /\ slot[r].pc \in {"set", "done"} => slot[r].predicts = 1
                /\ (slot[r].pc = "done" /\ slot[q].pc = "done") =>
                       /\ slot[r].status = 200 /\ slot[q].status = 200
                       /\ slot[r].setOutcome \in {"ok", "error"}
                       /\ slot[q].setOutcome \in {"ok", "error"}
                       /\ slot[r].response = slot[q].response
                       /\ slot[r].result = slot[q].result
                       /\ slot[r].response = Some(InferenceResponse(slot[r].result[1]))
                       /\ store[k] # None =>
                              /\ store[k][1].value = json_dumps(slot[r].result[1])
                              /\ InferenceResponse(json_loads(store[k][1].value))
                                     = slot[q].response[1]
\* Both requests missed, computed and wrote within the same second: the
\* second lookup came before the first write.
C27_Witness ==
    \E r, q \in Slots :
        /\ C27_BothMissed(r, q)
        /\ slot[r].pc = "done" /\ slot[q].pc = "done"
        /\ slot[r].setOutcome = "ok" /\ slot[q].setOutcome = "ok"
        /\ slot[r].predicts = 1 /\ slot[q].predicts = 1
        /\ now = 0
        /\ store[KeyOf(slot[r].body[1])] # None

\* C28: predict uses the caller's max_tokens and temperature whenever they
\* are given, for every max_tokens in 1..1000 and every temperature in
\* 0.0..2.0, and the configured defaults only for an argument that is None:
\* the result's token count is capped by the max_tokens in use and its
\* output reports the temperature in use.
C28_CallerParameters ==
    \A r \in Slots :
        slot[r].result # None =>
            LET b == slot[r].body[1]
                res == slot[r].result[1]
            IN  /\ res.tokens_used = C14_Tokens(b)
                /\ b.temperature # None => res.output[5] = b.temperature[1]
                /\ b.temperature = None => res.output[5] = model_temperature

\* C29 as stated: every value written to the backend is a JSON object of
\* exactly the fields output, tokens_used and model_version; model_name is
\* not stored.
C29_ThreeFieldEntry ==
    \A k \in CacheKeys :
        store[k] # None =>
            /\ store[k][1].value[1] = "json"
            /\ DOMAIN json_loads(store[k][1].value) =
                   {"output", "tokens_used", "model_version"}
\* C29 (amended): every value written to the backend is the JSON encoding
\* of the stub's whole result for the request: exactly the fields output,
\* tokens_used, model_version and model_name. A response built from it
\* carries only output, tokens_used and model_version.
C29_WholeResultStored ==
    /\ \A k \in CacheKeys :
           store[k] # None =>
               /\ store[k][1].value[1] = "json"
               /\ DOMAIN json_loads(store[k][1].value) =
                      {"output", "tokens_used", "model_version", "model_name"}
               /\ json_loads(store[k][1].value).model_name = "default-model"
    /\ \A r \in Slots :
           slot[r].getOutcome = "hit" =>
               /\ "model_name" \in DOMAIN slot[r].cached_result[1]
               /\ DOMAIN slot[r].response[1] = {"output", "tokens_used", "model_version"}
\* An entry is in the backend and a request has been served from it.
C29_Witness ==
    \E r \in Slots :
        /\ slot[r].getOutcome = "hit" /\ slot[r].status = 200
        /\ store[KeyOf(slot[r].body[1])] # None
        /\ slot[r].cached_result[1].model_name = "default-model"

\* The stub's result for the validated body b.
C30_Result(b) == predict(b.prompt, b.max_tokens, b.temperature)
\* Every entry in the backend is the stub's result for the parameters of
\* its key, and every response served from the cache is the response a
\* miss returns for the same request.
C30_Coherent ==
    /\ \A k \in CacheKeys :
           store[k] # None =>
               /\ writer[k] # None /\ KeyOf(writer[k][1]) = k
               /\ json_loads(store[k][1].value) = C30_Result(writer[k][1])
    /\ \A r \in Slots :
           slot[r].getOutcome = "hit" =>
               /\ slot[r].cached_result = Some(C30_Result(slot[r].body[1]))
               /\ slot[r].status = 200
               /\ slot[r].response =
                      Return200(slot[r], metrics, C30_Result(slot[r].body[1])).slot.response
\* A change of the entry under a key: the write of a request whose lookup
\* returned nothing, putting a whole new value, or the expiry of the entry.
C30_Step ==
    \A k \in CacheKeys :
        store'[k] # store[k] =>
            \/ store'[k] = None /\ store[k][1].exp <= now'
            \/ \E r \in Slots :
                   /\ slot[r].pc = "set" /\ slot'[r].setOutcome = "ok"
                   /\ slot[r].cached_result = None /\ slot[r].predicts = 1
                   /\ k = KeyOf(slot[r].body[1])
                   /\ store'[k] = Some([value |-> json_dumps(slot[r].result[1]),
                                        exp |-> now + redis_ttl])
\* C30: cache coherence. With this service the only writer, every entry
\* under the key of (prompt, max_tokens, temperature) equals the stub's
\* result for those parameters; an entry changes only by the write of a
\* request that missed (as a whole value) or by expiry; so the body of a
\* cache hit is the body a miss returns for the same request.
C30_CacheCoherence == [](C30_Coherent) /\ [][C30_Step]_vars
\* A hit beside a miss for the same body, at a later time than the write,
\* with equal responses.
C30_Witness ==
    \E r, q \in Slots :
        /\ slot[r].getOutcome = "hit" /\ slot[r].pc = "done"
        /\ slot[q].getOutcome = "miss" /\ slot[q].pc = "done"
        /\ slot[q].body = slot[r].body
        /\ slot[q].response = slot[r].response
        /\ now > 0

\* The step that decides a request whose entry is in the cache, and the
\* step in which a request is served from the cache.
C31_Step ==
    \A r \in Slots :
        /\ (/\ slot[r].pc = "idle" /\ slot'[r].pc # "idle"
            /\ slot'[r].body # None
            /\ store[KeyOf(slot'[r].body[1])] # None) =>
               /\ storage'[key_func(slot'[r].id)] = LiveCount(slot'[r].id) + 1
               /\ slot'[r].status = 429 <=>
                      LiveCount(slot'[r].id) + 1 > rate_limit_per_minute
        /\ (slot[r].pc = "get" /\ slot'[r].getOutcome = "hit") =>
               /\ storage' = storage /\ expirations' = expirations
               /\ storage[key_func(slot[r].id)] >= 1
\* C31: cache hits consume rate-limit budget like misses. A request whose
\* entry is in the cache raises its identity's window count by one when it
\* is decided, and being served from the cache gives nothing back; so the
\* request after the N-th of a window is answered 429 although it would
\* have been a hit.
C31_HitsConsumeBudget == [][C31_Step]_vars
\* Under a limit of 2: a miss, a hit, then a 429 for the same body while
\* its entry is still in the cache.
C31_Witness ==
    \E r \in Slots :
        /\ rate_limit_per_minute = 2
        /\ slot[r].status = 429 /\ seen[slot[r].id] = 3
        /\ slot[r].payload # None
        /\ store[KeyOf(slot[r].payload[1])] # None
        /\ metrics.cache_misses = 1 /\ metrics.cache_hits = 1

\* Executions of the handler that have entered and not left.
C32_InHandler == {r \in Slots : slot[r].pc \in {"get", "predict", "set"}}
\* C32: active-request gauge balance. Each execution of the handler raises
\* the gauge once on entry and lowers it once on exit, on the hit path, the
\* miss path and the exception path, whatever the backend GET returns: the
\* gauge equals the number of executions in flight, is never negative and
\* is 0 when none is in flight.
C32_GaugeBalance ==
    /\ metrics.active_requests = Cardinality(C32_InHandler)
    /\ metrics.active_requests >= 0

\* The step in which an execution of the handler ends, by a response
\* (status 200) or by re-raising (status 500).
C33_Step ==
    \A r \in Slots :
        (slot[r].pc # "done" /\ slot'[r].pc = "done" /\ slot'[r].status \in {200, 500}) =>
            /\ metrics'.request_count_200 + metrics'.request_count_500
                   = metrics.request_count_200 + metrics.request_count_500 + 1
            /\ slot'[r].status = 200 =>
                   metrics'.request_count_200 = metrics.request_count_200 + 1
            /\ slot'[r].status = 500 =>
                   metrics'.request_count_500 = metrics.request_count_500 + 1
\* C33: one request metric per request. Each execution of the handler
\* calls record_request exactly once, with 200 exactly when it returns a
\* response and with 500 exactly when it re-raises, whatever the backend
\* GET returns; no request is counted under both.
C33_OneRequestMetric == [][C33_Step]_vars

\* The step in which a backend GET or SETEX fails, and the step in which a
\* request enters the handler of a store that has connected.
C34_Step ==
    \A r \in Slots :
        /\ (\/ slot[r].pc = "get" /\ slot'[r].getOutcome = "error"
            \/ slot[r].pc = "set" /\ slot'[r].setOutcome = "error") =>
               /\ connected /\ connected'
               /\ redis_client' = redis_client
               /\ connPc' = connPc /\ pings' = pings
               /\ store' = store
        /\ (pingOk /\ slot[r].pc = "idle" /\ slot'[r].pc # "idle"
                /\ slot'[r].status \notin {422, 429}) => slot'[r].pc = "get"
        /\ (pingOk /\ slot[r].pc = "predict" /\ slot'[r].pc # "predict") =>
               slot'[r].pc = "set"
        /\ (slot[r].pc = "set" /\ slot'[r].setOutcome = "ok") =>
               store'[KeyOf(slot[r].body[1])][1].exp = now + redis_ttl
\* C34: call-time backend errors leave the connection state unchanged. A
\* GET or SETEX that fails while the store is connected changes neither
\* _connected nor the client nor the TTL later writes carry, and starts no
\* reconnection; every later get and set goes to the backend again.
C34_ErrorsKeepConnection == [][C34_Step]_vars
\* Of two requests, one whose GET failed wrote its result, and the other
\* was then served from the cache.
C34_Witness ==
    /\ nreq = 2 /\ connected
    /\ \E r, q \in Slots :
           /\ slot[r].getOutcome = "error" /\ slot[r].setOutcome = "ok"
           /\ slot[q].getOutcome = "hit" /\ slot[q].status = 200

\* disconnect() has returned on a store that had connected.
C35_Disconnected == pingOk /\ disconnects >= 1
\* Once disconnected: the store stays unconnected, and a request answered
\* by the handler was answered 200 with the stub's result.
C35_State ==
    C35_Disconnected =>
        /\ ~connected
        /\ \A r \in Slots :
               (slot[r].pc = "done" /\ slot[r].status # 429) =>
                   /\ slot[r].status = 200
                   /\ slot[r].response = StubResponse(r)
\* Steps taken once disconnected: the store is not connected again, a
\* request entering the handler gets None from get at once, and its set
\* returns at once, leaving the backend as it was.
C35_Step ==
    C35_Disconnected =>
        /\ ~connected' /\ pings' = pings
        /\ \A r \in Slots :
               /\ (slot[r].pc = "idle" /\ slot'[r].pc # "idle" /\ slot'[r].status # 429) =>
                      /\ slot'[r].getOutcome = "disabled"
                      /\ slot'[r].cached_result = None
                      /\ slot'[r].pc = "predict"
                      /\ store' = store
               /\ (slot[r].pc = "predict" /\ slot'[r].pc # "predict") =>
                      /\ slot'[r].setOutcome = "disabled"
                      /\ slot'[r].pc = "done" /\ slot'[r].status = 200
                      /\ slot'[r].predicts = 1
                      /\ store' = store
\* C35: after disconnect() has completed on a connected store, the store
\* behaves as disabled from then on: every later get returns None and
\* every later set does nothing, without backend I/O, and a request handled
\* after the disconnect is answered 200 with the stub's result.
C35_DisconnectedAsDisabled == [](C35_State) /\ [][C35_Step]_vars
\* A second request computed after the disconnect although the backend
\* still holds the entry the first one wrote.
C35_Witness ==
    /\ C35_Disconnected
    /\ store[KeyOf(BaseBody)] # None
    /\ metrics.cache_misses = 2 /\ metrics.cache_hits = 0
    /\ \E r \in Slots :
           /\ slot[r].pc = "done" /\ slot[r].status = 200
           /\ slot[r].getOutcome = "disabled" /\ slot[r].predicts = 1
====
